---- MODULE Spec2Model ----
(***************************************************************************)
(* A model of the cache digest reader of src/src/cache-digest.js: the      *)
(* FNV-1a hash and the bucket arithmetic, the parser of a base64 digest    *)
(* and the lookup of an item in the parsed Cuckoo filter.                  *)
(*                                                                         *)
(* Strings are sequences of UTF-16 code units.  A 32-bit unsigned value is *)
(* a record [hi, lo] of two 16-bit limbs (its value is hi * 2^16 + lo), so *)
(* that no intermediate value leaves the range of TLC's integers.          *)
(***************************************************************************)
EXTENDS Integers, Sequences, FiniteSets

\* ------------------------------------------------------------ constants

FINGERPRINT_BITS == 12
BUCKET_SIZE == 4

\* 2166136261 = 0x811C9DC5, the offset basis, as two 16-bit limbs.
OffsetBasisHi == 33052
OffsetBasisLo == 40389
\* 16777619 = 0x01000193, the prime, as two 16-bit limbs.
PrimeHi == 256
PrimeLo == 403

\* The result of x % 0, and of arithmetic on it.  Bucket indexes are never
\* negative otherwise, so -1 is free to stand for it.
NaN == -1
\* A read of a typed array outside its bounds.
undefined == -1
\* The value of #buckets before the parser allocates the table.
null == <<-1>>

\* ------------------------------------------------------------ bounds

\* The largest bucket count of the digests the model decodes.
MaxBuckets == 4
\* computeAlternateBucket is applied to the bucket counts 2^0 .. 2^MaxLogBuckets,
\* and to the fingerprints 1 .. MaxFp besides those of the items.
MaxLogBuckets == 4
MaxFp == 100
\* The hash is applied to every string of up to MaxStrLen code units of HashAlphabet.
MaxStrLen == 3

\* ------------------------------------------------------------ bit arithmetic

RECURSIVE Pow2(_)
Pow2(k) == IF k = 0 THEN 1 ELSE 2 * Pow2(k - 1)

W16 == Pow2(16)

\* Bitwise operations on naturals below 2^16.
RECURSIVE BitAnd(_, _)
BitAnd(a, b) ==
  IF a = 0 \/ b = 0 THEN 0
  ELSE (IF a % 2 = 1 /\ b % 2 = 1 THEN 1 ELSE 0) + 2 * BitAnd(a \div 2, b \div 2)

RECURSIVE BitOr(_, _)
BitOr(a, b) ==
  IF a = 0 THEN b
  ELSE IF b = 0 THEN a
  ELSE (IF a % 2 = 1 \/ b % 2 = 1 THEN 1 ELSE 0) + 2 * BitOr(a \div 2, b \div 2)

RECURSIVE BitXor(_, _)
BitXor(a, b) ==
  IF a = 0 THEN b
  ELSE IF b = 0 THEN a
  ELSE (IF a % 2 # b % 2 THEN 1 ELSE 0) + 2 * BitXor(a \div 2, b \div 2)

\* ToInt32 of a 32-bit unsigned value: what a bitwise operator of the language
\* makes of a Number.
ToInt32(h) == IF h.hi >= W16 \div 2 THEN ((h.hi - W16) * W16) + h.lo ELSE (h.hi * W16) + h.lo

\* ------------------------------------------------------------ fnv1a

\* hash ^= BigInt(str.charCodeAt(i)): a code unit is below 2^16.
HashXor(h, c) == [hi |-> h.hi, lo |-> BitXor(h.lo, c)]

\* hash = (hash * prime) & mask, on limbs.
HashMul(h) ==
  LET low == h.lo * PrimeLo
  IN  [hi |-> ((h.hi * PrimeLo) + (h.lo * PrimeHi) + (low \div W16)) % W16,
       lo |-> low % W16]

\* One round of FNV-1 (multiply, then XOR): not what the code does.
FnvStepMultiplyFirst(h, c) == HashXor(HashMul(h), c)

FnvStep(h, c) == HashMul(HashXor(h, c))

RECURSIVE FnvFold(_, _, _)
FnvFold(h, str, i) ==
  IF i > Len(str) THEN h ELSE FnvFold(FnvStep(h, str[i]), str, i + 1)

fnv1a(str) == FnvFold([hi |-> OffsetBasisHi, lo |-> OffsetBasisLo], str, 1)

\* ------------------------------------------------------------ fingerprint

\* Without the "|| 1": the empty-slot value 0 can come out.
fingerprintNoSubstitute(str) == BitAnd(fnv1a(str).lo, Pow2(FINGERPRINT_BITS) - 1)

\* (hash & ((1 << FINGERPRINT_BITS) - 1)) || 1: the mask is below 2^16, so
\* only the low limb takes part.
fingerprint(str) ==
  LET low == BitAnd(fnv1a(str).lo, Pow2(FINGERPRINT_BITS) - 1)
  IN  IF low = 0 THEN 1 ELSE low

\* ------------------------------------------------------------ buckets

\* (x * 2^k) % n without leaving TLC's integers, for 0 <= x < n < 2^16.
RECURSIVE ShiftMod(_, _, _)
ShiftMod(x, k, n) == IF k = 0 THEN x ELSE ShiftMod((2 * x) % n, k - 1, n)

\* fnv1a(str) % numBuckets; NaN when numBuckets = 0.
primaryBucket(str, numBuckets) ==
  IF numBuckets = 0 THEN NaN
  ELSE LET h == fnv1a(str)
       IN  (ShiftMod(h.hi % numBuckets, 16, numBuckets) + (h.lo % numBuckets)) % numBuckets

\* String(fp) for a natural: its decimal digits as code units.
RECURSIVE DecimalString(_)
DecimalString(n) ==
  IF n < 10 THEN <<48 + n>> ELSE Append(DecimalString(n \div 10), 48 + (n % 10))

\* The offset added rather than XORed: no longer its own inverse.
computeAlternateBucketAdd(bucket, fp, numBuckets) ==
  LET fpHash == fnv1a(DecimalString(fp))
      bucketMask == numBuckets - 1
      offset == BitAnd(BitOr(fpHash.lo, 1), bucketMask)
  IN  BitAnd(bucket + offset, bucketMask)

\* bucket is a natural below 2^16 or NaN, numBuckets a natural up to 2^16.
\* With numBuckets = 0 the mask is -1 (all 32 bits) and the result is the
\* int32 of bucket ^ (fpHash | 1); NaN is 0 to a bitwise operator.
computeAlternateBucket(bucket, fp, numBuckets) ==
  LET fpHash == fnv1a(DecimalString(fp))
      bucketMask == numBuckets - 1
      b == IF bucket = NaN THEN 0 ELSE bucket
  IN  IF bucketMask = -1
      THEN ToInt32([hi |-> fpHash.hi, lo |-> BitXor(b, BitOr(fpHash.lo, 1))])
      ELSE LET offset == BitAnd(BitOr(fpHash.lo, 1), bucketMask)
           IN  BitAnd(BitXor(b, offset), bucketMask)

\* ------------------------------------------------------------ base64

\* The value of a character of the base64 alphabet (the URL-safe one
\* included), -1 for any other character.
unbase64(c) ==
  IF c >= 65 /\ c <= 90 THEN c - 65
  ELSE IF c >= 97 /\ c <= 122 THEN c - 71
  ELSE IF c >= 48 /\ c <= 57 THEN c + 4
  ELSE IF c = 43 \/ c = 45 THEN 62
  ELSE IF c = 47 \/ c = 95 THEN 63
  ELSE -1

\* digest.replace(/-/g, '+').replace(/_/g, '/'), then '=' up to a multiple of 4.
RECURSIVE PadToFour(_)
PadToFour(s) == IF Len(s) % 4 = 0 THEN s ELSE PadToFour(Append(s, 61))

normalize(digest) ==
  PadToFour([i \in 1..Len(digest) |->
               IF digest[i] = 45 THEN 43 ELSE IF digest[i] = 95 THEN 47 ELSE digest[i]])

\* The values the base64 decoder of Buffer.from reads: it skips every
\* character outside the alphabet and stops at the first '='.
RECURSIVE Sextets(_, _)
Sextets(s, i) ==
  IF i > Len(s) THEN <<>>
  ELSE IF unbase64(s[i]) >= 0 THEN <<unbase64(s[i])>> \o Sextets(s, i + 1)
  ELSE IF s[i] = 61 THEN <<>>
  ELSE Sextets(s, i + 1)

\* The j-th byte (from 0) of the values v: 4 values make 3 bytes.
ByteOfSextets(v, j) ==
  LET g == 4 * (j \div 3)
  IN  CASE j % 3 = 0 -> (v[g + 1] * 4) + (v[g + 2] \div 16)
        [] j % 3 = 1 -> ((v[g + 2] % 16) * 16) + (v[g + 3] \div 4)
        [] OTHER     -> ((v[g + 3] % 4) * 64) + v[g + 4]

\* Buffer.from(normalized, 'base64'): never fails; what is not base64 is
\* dropped, and a last group of 2 or 3 values makes 1 or 2 bytes.
Base64Decode(s) ==
  LET v == Sextets(s, 1)
  IN  [j \in 1..((Len(v) * 3) \div 4) |-> ByteOfSextets(v, j - 1)]

\* ------------------------------------------------------------ CacheDigest

\* The fields of a CacheDigest before the parser ran (their initializers).
Unparsed == [numBuckets |-> 0, buckets |-> null, valid |-> FALSE]

\* A cell is read when only its first byte is there; the missing byte reads
\* as undefined, which is 0 to "|".
readCellFirstByteOnly(bytes, i) ==
  LET offset == 5 + (i * 2)
  IN  IF offset < Len(bytes)
      THEN (bytes[offset + 1] * 256)
           + (IF offset + 1 < Len(bytes) THEN bytes[offset + 2] ELSE 0)
      ELSE 0

\* One round of the loop that fills the table: cell i (from 0) of the bytes,
\* 0 when the bytes end before it does.
readCell(bytes, i) ==
  LET offset == 5 + (i * 2)
  IN  IF offset + 1 < Len(bytes)
      THEN (bytes[offset + 1] * 256) + bytes[offset + 2]
      ELSE 0

\* The validity flag set before the header is checked.
parseDigestValidFirst(digest) ==
  IF Len(digest) = 0 THEN Unparsed
  ELSE LET bytes == Base64Decode(normalize(digest))
       IN  IF Len(bytes) < 5 \/ bytes[1] # 1
           THEN [numBuckets |-> 0, buckets |-> null, valid |-> TRUE]
           ELSE LET n == (bytes[2] * 256) + bytes[3]
                IN  [numBuckets |-> n,
                     buckets |-> [i \in 1..(n * BUCKET_SIZE) |-> readCell(bytes, i - 1)],
                     valid |-> TRUE]

\* The version byte is not checked.
parseDigestAnyVersion(digest) ==
  IF Len(digest) = 0 THEN Unparsed
  ELSE LET bytes == Base64Decode(normalize(digest))
       IN  IF Len(bytes) < 5 THEN Unparsed
           ELSE LET n == (bytes[2] * 256) + bytes[3]
                IN  [numBuckets |-> n,
                     buckets |-> [i \in 1..(n * BUCKET_SIZE) |-> readCell(bytes, i - 1)],
                     valid |-> TRUE]

\* The digest's fields after #parseDigest(digest).
parseDigest(digest) ==
  IF Len(digest) = 0 THEN Unparsed
  ELSE LET bytes == Base64Decode(normalize(digest))
       IN  IF Len(bytes) < 5 THEN Unparsed
           ELSE IF bytes[1] # 1 THEN Unparsed
           ELSE LET n == (bytes[2] * 256) + bytes[3]
                IN  [numBuckets |-> n,
                     buckets |-> [i \in 1..(n * BUCKET_SIZE) |-> readCell(bytes, i - 1)],
                     valid |-> TRUE]

isValid(this) == this.valid

\* this.#buckets[index]: undefined outside the table.
CellAt(this, index) ==
  IF index >= 0 /\ index < Len(this.buckets) THEN this.buckets[index + 1] ELSE undefined

RECURSIVE BucketScan(_, _, _, _)
BucketScan(this, offset, fp, i) ==
  IF i >= BUCKET_SIZE THEN FALSE
  ELSE IF CellAt(this, offset + i) = fp THEN TRUE
  ELSE BucketScan(this, offset, fp, i + 1)

\* A scan that stops one cell short of the bucket's end.
RECURSIVE BucketScanShort(_, _, _, _)
BucketScanShort(this, offset, fp, i) ==
  IF i >= BUCKET_SIZE - 1 THEN FALSE
  ELSE IF CellAt(this, offset + i) = fp THEN TRUE
  ELSE BucketScanShort(this, offset, fp, i + 1)

bucketContainsShort(this, bucketIndex, fp) ==
  IF bucketIndex = NaN \/ bucketIndex < 0 \/ bucketIndex >= W16 THEN FALSE
  ELSE BucketScanShort(this, bucketIndex * BUCKET_SIZE, fp, 0)

\* A bucket index that is NaN, negative or beyond any table (the table has
\* fewer than 2^16 buckets) makes every read undefined.
bucketContains(this, bucketIndex, fp) ==
  IF bucketIndex = NaN \/ bucketIndex < 0 \/ bucketIndex >= W16 THEN FALSE
  ELSE BucketScan(this, bucketIndex * BUCKET_SIZE, fp, 0)

\* Only the primary bucket is searched.
lookupPrimaryOnly(this, item) ==
  IF ~this.valid THEN FALSE
  ELSE bucketContains(this, primaryBucket(item, this.numBuckets), fingerprint(item))

lookup(this, item) ==
  IF ~this.valid THEN FALSE
  ELSE LET fp == fingerprint(item)
           i1 == primaryBucket(item, this.numBuckets)
           i2 == computeAlternateBucket(i1, fp, this.numBuckets)
       IN  bucketContains(this, i1, fp) \/ bucketContains(this, i2, fp)

\* lookup raises (a TypeError) exactly when it reads a cell of a table that
\* was never allocated.
lookupThrows(this, item) == this.valid /\ this.buckets = null

\* ------------------------------------------------------------ inputs

\* The items looked up: "", "a", "test", "123" (the hash's reference
\* vectors) and "lol", whose hash ends in twelve 0 bits.
ItemEmpty == <<>>
ItemA == <<97>>
ItemTest == <<116, 101, 115, 116>>
Item123 == <<49, 50, 51>>
ItemLol == <<108, 111, 108>>
Items == {ItemEmpty, ItemA, ItemTest, Item123, ItemLol}
LookupItems == {ItemEmpty, ItemA, ItemTest, ItemLol}
NoItem == <<-1>>

Readers == {"r1", "r2"}

\* The items the encoder stores.
EncoderItems == {ItemEmpty, ItemA, ItemLol}

NoCall == [op |-> "none", str |-> <<>>, bucket |-> 0, fp |-> 0, n |-> 0]

\* The encoder's side of the format: base64 of the bytes, URL-safe and
\* without padding, or standard and padded.
Base64Char(v, urlSafe) ==
  IF v < 26 THEN 65 + v
  ELSE IF v < 52 THEN 71 + v
  ELSE IF v < 62 THEN v - 4
  ELSE IF v = 62 THEN (IF urlSafe THEN 45 ELSE 43)
  ELSE (IF urlSafe THEN 95 ELSE 47)

ByteAt(bytes, j) == IF j <= Len(bytes) THEN bytes[j] ELSE 0

\* The k-th character (from 0) of the base64 of bytes.
Base64CharAt(bytes, k, urlSafe) ==
  LET g == 3 * (k \div 4)
      b1 == ByteAt(bytes, g + 1)
      b2 == ByteAt(bytes, g + 2)
      b3 == ByteAt(bytes, g + 3)
  IN  Base64Char(CASE k % 4 = 0 -> b1 \div 4
                   [] k % 4 = 1 -> ((b1 % 4) * 16) + (b2 \div 16)
                   [] k % 4 = 2 -> ((b2 % 16) * 4) + (b3 \div 64)
                   [] OTHER     -> b3 % 64,
                 urlSafe)

ToBase64Url(bytes) ==
  [k \in 1..(((Len(bytes) * 4) + 2) \div 3) |-> Base64CharAt(bytes, k - 1, TRUE)]

ToBase64(bytes) ==
  PadToFour([k \in 1..(((Len(bytes) * 4) + 2) \div 3) |-> Base64CharAt(bytes, k - 1, FALSE)])

Header(version, n, r1, r2) == <<version, n \div 256, n % 256, r1, r2>>

RECURSIVE CellBytes(_, _)
CellBytes(cells, i) ==
  IF i > Len(cells) THEN <<>>
  ELSE <<cells[i] \div 256, cells[i] % 256>> \o CellBytes(cells, i + 1)

TableOne(n, p, v) == [i \in 1..(n * BUCKET_SIZE) |-> IF i = p THEN v ELSE 0]
TableAll(n, v) == [i \in 1..(n * BUCKET_SIZE) |-> v]

Insert(s, k, c) == SubSeq(s, 1, k) \o <<c>> \o SubSeq(s, k + 1, Len(s))

\* Cell values: the items' fingerprints, and a cell above 4095 that agrees
\* with a fingerprint on its low 12 bits.
CellVals == {fingerprint(it) : it \in Items} \cup {fingerprint(ItemTest) + Pow2(FINGERPRINT_BITS)}

\* Whole tables holding one fingerprint, or one fingerprint in every cell.
WholePayloads ==
  {Header(1, n, 0, 0) \o CellBytes(TableOne(n, p, v), 1) :
     <<n, p, v>> \in {t \in (1..MaxBuckets) \X (1..(MaxBuckets * BUCKET_SIZE)) \X CellVals :
                        t[2] <= t[1] * BUCKET_SIZE}}
  \cup {Header(1, n, 0, 0) \o CellBytes(TableAll(n, v), 1) : <<n, v>> \in (0..MaxBuckets) \X CellVals}

\* Every prefix of a table followed by two more bytes.
TruncatedPayloads ==
  UNION {{SubSeq(b, 1, L) : L \in 0..Len(b)} :
           b \in {Header(1, n, 0, 0) \o CellBytes(TableAll(n, v), 1) \o <<171, 205>> :
                    <<n, v>> \in {1, 2} \X {fingerprint(ItemEmpty), fingerprint(ItemA)}}}

\* Headers: the version, a bucket count above 255, the reserved bytes.
HeaderPayloads ==
  {Header(ver, n, r, r) \o CellBytes(TableAll(1, fingerprint(ItemA)), 1) :
     <<ver, n, r>> \in {0, 1, 2} \X {0, 1, 256} \X {0, 255}}

Payloads == WholePayloads \cup TruncatedPayloads \cup HeaderPayloads

\* Strings that are not base64: a character inserted into a digest.
CorruptedInputs ==
  UNION {{Insert(s, k, c) : <<k, c>> \in (0..Len(s)) \X {33, 61}} :
           s \in {ToBase64Url(b) :
                    b \in {Header(1, 1, 0, 0) \o CellBytes(TableOne(1, 1, fingerprint(ItemA)), 1),
                           Header(1, 2, 255, 255) \o CellBytes(TableAll(2, fingerprint(ItemLol)), 1),
                           Header(1, 1, 0, 0),
                           <<1, 0>>}}}

Inputs ==
  {ToBase64Url(b) : b \in Payloads}
  \cup {ToBase64(b) : b \in HeaderPayloads}
  \cup CorruptedInputs

\* ------------------------------------------------------------ state

VARIABLES
  digest,      \* the string given to the constructor
  numBuckets,  \* #numBuckets
  buckets,     \* #buckets
  valid,       \* #valid
  pc,          \* "new" before the constructor ran, "ready" after
  lastItem,    \* per reader, the item of its last lookup
  result,      \* per reader, what that lookup returned
  raised,      \* whether an exception left the constructor or a lookup
  table,       \* the encoder's bucket table (the client's side)
  slotOf,      \* per item, the cell of the encoder's table holding it, or -1
  call,        \* the arguments of a call of a function of the hash engine
  ret          \* the values the calls returned so far

vars == <<digest, numBuckets, buckets, valid, pc, lastItem, result, raised,
          table, slotOf, call, ret>>

encoderVars == <<table, slotOf>>
callVars == <<call, ret>>
readerVars == <<digest, numBuckets, buckets, valid, pc, lastItem, result, raised>>

This == [numBuckets |-> numBuckets, buckets |-> buckets, valid |-> valid]

Init ==
  /\ digest \in Inputs
  /\ numBuckets = Unparsed.numBuckets
  /\ buckets = Unparsed.buckets
  /\ valid = Unparsed.valid
  /\ pc = "new"
  /\ lastItem = [r \in Readers |-> NoItem]
  /\ result = [r \in Readers |-> FALSE]
  /\ raised = FALSE
  /\ table = <<>>
  /\ slotOf = [it \in EncoderItems |-> -1]
  /\ call = NoCall
  /\ ret = <<>>

\* CacheDigest.fromBase64(digest): the constructor runs the parser.
fromBase64 ==
  /\ pc = "new"
  /\ LET this == parseDigest(digest)
     IN  /\ numBuckets' = this.numBuckets
         /\ buckets' = this.buckets
         /\ valid' = this.valid
  /\ pc' = "ready"
  /\ UNCHANGED <<digest, lastItem, result, raised, encoderVars, callVars>>

\* A lookup that empties the cell it found.
LookupEvicting(r, item) ==
  /\ pc = "ready"
  /\ ~lookupThrows(This, item)
  /\ lastItem' = [lastItem EXCEPT ![r] = item]
  /\ result' = [result EXCEPT ![r] = lookup(This, item)]
  /\ buckets' = IF valid
                THEN [i \in 1..Len(buckets) |->
                        IF buckets[i] = fingerprint(item) THEN 0 ELSE buckets[i]]
                ELSE buckets
  /\ UNCHANGED <<digest, numBuckets, valid, pc, raised, encoderVars, callVars>>

\* Reader r calls lookup(item) on the constructed digest.
Lookup(r, item) ==
  /\ pc = "ready"
  /\ IF lookupThrows(This, item)
     THEN /\ raised' = TRUE
          /\ UNCHANGED <<lastItem, result>>
     ELSE /\ lastItem' = [lastItem EXCEPT ![r] = item]
          /\ result' = [result EXCEPT ![r] = lookup(This, item)]
          /\ UNCHANGED raised
  /\ UNCHANGED <<digest, numBuckets, buckets, valid, pc, encoderVars, callVars>>

Next ==
  \/ fromBase64
  \/ \E r \in Readers, item \in LookupItems : Lookup(r, item)

Spec == Init /\ [][Next]_vars

\* ------------------------------------------------------------ the hash engine alone

\* "a", "l", "o", "1" and the euro sign, a code unit above 255.
HashAlphabet == {97, 108, 111, 49, 8364}

RECURSIVE StringsOfLen(_)
StringsOfLen(k) ==
  IF k = 0 THEN {<<>>}
  ELSE {Append(s, c) : s \in StringsOfLen(k - 1), c \in HashAlphabet}

HashStrings == Items \cup UNION {StringsOfLen(k) : k \in 0..MaxStrLen}

AltBucketCounts == {Pow2(k) : k \in 0..MaxLogBuckets}
FpSamples == (1..MaxFp) \cup {fingerprint(it) : it \in Items} \cup {Pow2(FINGERPRINT_BITS) - 1}

Calls ==
  {[op |-> o, str |-> s, bucket |-> 0, fp |-> 0, n |-> 0] :
     o \in {"fnv1a", "fingerprint"}, s \in HashStrings}
  \cup {[op |-> "primaryBucket", str |-> s, bucket |-> 0, fp |-> 0, n |-> n] :
          s \in Items, n \in 0..MaxBuckets}
  \cup {[op |-> "computeAlternateBucket", str |-> <<>>, bucket |-> t[1], fp |-> f, n |-> t[2]] :
          t \in {u \in (0..(Pow2(MaxLogBuckets) - 1)) \X AltBucketCounts : u[1] < u[2]},
          f \in FpSamples}

InitHash ==
  /\ call \in Calls
  /\ ret = <<>>
  /\ digest = <<>>
  /\ numBuckets = Unparsed.numBuckets
  /\ buckets = Unparsed.buckets
  /\ valid = Unparsed.valid
  /\ pc = "hash"
  /\ lastItem = [r \in Readers |-> NoItem]
  /\ result = [r \in Readers |-> FALSE]
  /\ raised = FALSE
  /\ table = <<>>
  /\ slotOf = [it \in EncoderItems |-> -1]

CallFnv1a ==
  /\ call.op = "fnv1a"
  /\ ret = <<>>
  /\ ret' = <<fnv1a(call.str)>>
  /\ UNCHANGED <<call, readerVars, encoderVars>>

CallFingerprint ==
  /\ call.op = "fingerprint"
  /\ ret = <<>>
  /\ ret' = <<fingerprint(call.str)>>
  /\ UNCHANGED <<call, readerVars, encoderVars>>

CallPrimaryBucket ==
  /\ call.op = "primaryBucket"
  /\ ret = <<>>
  /\ ret' = <<primaryBucket(call.str, call.n)>>
  /\ UNCHANGED <<call, readerVars, encoderVars>>

\* computeAlternateBucket applied to the bucket, then to what it returned.
CallAlternateBucket ==
  /\ call.op = "computeAlternateBucket"
  /\ Len(ret) < 2
  /\ ret' = Append(ret, computeAlternateBucket(IF ret = <<>> THEN call.bucket ELSE ret[Len(ret)],
                                               call.fp, call.n))
  /\ UNCHANGED <<call, readerVars, encoderVars>>

NextHash ==
  \/ CallFnv1a
  \/ CallFingerprint
  \/ CallPrimaryBucket
  \/ CallAlternateBucket

SpecHash == InitHash /\ [][NextHash]_vars

\* ------------------------------------------------------------ a conforming encoder

\* The client that builds the digest: it stores an item's fingerprint in a
\* free slot of one of the item's two buckets, moves a stored fingerprint to
\* its alternate bucket, drops one, and at last sends the table, whole or cut.

EncoderBucketCounts == {n \in AltBucketCounts : n <= MaxBuckets}

EncoderBuckets == Len(table) \div BUCKET_SIZE

InitEncoder ==
  /\ table \in {TableAll(n, 0) : n \in EncoderBucketCounts}
  /\ slotOf = [it \in EncoderItems |-> -1]
  /\ digest = <<>>
  /\ numBuckets = Unparsed.numBuckets
  /\ buckets = Unparsed.buckets
  /\ valid = Unparsed.valid
  /\ pc = "encoding"
  /\ lastItem = [r \in Readers |-> NoItem]
  /\ result = [r \in Readers |-> FALSE]
  /\ raised = FALSE
  /\ call = NoCall
  /\ ret = <<>>

\* The fingerprint of item goes to free slot j of bucket b, its primary or
\* its alternate bucket.
Store(item, b, j) ==
  /\ pc = "encoding"
  /\ slotOf[item] = -1
  /\ LET i1 == primaryBucket(item, EncoderBuckets)
     IN  b \in {i1, computeAlternateBucket(i1, fingerprint(item), EncoderBuckets)}
  /\ table[(b * BUCKET_SIZE) + j + 1] = 0
  /\ table' = [table EXCEPT ![(b * BUCKET_SIZE) + j + 1] = fingerprint(item)]
  /\ slotOf' = [slotOf EXCEPT ![item] = (b * BUCKET_SIZE) + j]
  /\ UNCHANGED <<readerVars, callVars>>

\* The stored fingerprint of item moves from its bucket b to free slot j of
\* computeAlternateBucket(b, fp, numBuckets).
Relocate(item, j) ==
  /\ pc = "encoding"
  /\ slotOf[item] # -1
  /\ LET b == slotOf[item] \div BUCKET_SIZE
         to == computeAlternateBucket(b, table[slotOf[item] + 1], EncoderBuckets)
     IN  /\ table[(to * BUCKET_SIZE) + j + 1] = 0
         /\ table' = [table EXCEPT ![slotOf[item] + 1] = 0,
                                   ![(to * BUCKET_SIZE) + j + 1] = table[slotOf[item] + 1]]
         /\ slotOf' = [slotOf EXCEPT ![item] = (to * BUCKET_SIZE) + j]
  /\ UNCHANGED <<readerVars, callVars>>

\* The fingerprint of item is dropped from the table.
Evict(item) ==
  /\ pc = "encoding"
  /\ slotOf[item] # -1
  /\ table' = [table EXCEPT ![slotOf[item] + 1] = 0]
  /\ slotOf' = [slotOf EXCEPT ![item] = -1]
  /\ UNCHANGED <<readerVars, callVars>>

EncodedBytes == Header(1, EncoderBuckets, 0, 0) \o CellBytes(table, 1)

\* The lengths the sent bytes are cut to: none cut, or cut before, within or
\* right after the cell of a stored item.
CutLengths ==
  {Len(EncodedBytes)}
  \cup UNION {{5 + (2 * slotOf[it]) + d : d \in 0..2} : it \in {x \in EncoderItems : slotOf[x] # -1}}

\* The first L bytes of the table reach the server, as URL-safe base64.
Send(L) ==
  /\ pc = "encoding"
  /\ L \in CutLengths
  /\ digest' = ToBase64Url(SubSeq(EncodedBytes, 1, L))
  /\ pc' = "new"
  /\ UNCHANGED <<numBuckets, buckets, valid, lastItem, result, raised, encoderVars, callVars>>

NextEncoder ==
  \/ \E item \in EncoderItems, b \in 0..(MaxBuckets - 1), j \in 0..(BUCKET_SIZE - 1) : Store(item, b, j)
  \/ \E item \in EncoderItems, j \in 0..(BUCKET_SIZE - 1) : Relocate(item, j)
  \/ \E item \in EncoderItems : Evict(item)
  \/ \E L \in 0..(5 + (2 * BUCKET_SIZE * MaxBuckets)) : Send(L)
  \/ fromBase64
  \/ \E item \in EncoderItems : Lookup("r1", item)

SpecEncoder == InitEncoder /\ [][NextEncoder]_vars

\* ------------------------------------------------------------ properties

\* The bytes the parser works on.
DecodedBytes == Base64Decode(normalize(digest))

HeaderAccepted == digest # <<>> /\ Len(DecodedBytes) >= 5 /\ DecodedBytes[1] = 1

\* The cells of bucket b of the parsed table; none when b is no bucket of it.
CellsOfBucket(b) ==
  IF b >= 0 /\ b < numBuckets
  THEN {buckets[(b * BUCKET_SIZE) + j] : j \in 1..BUCKET_SIZE}
  ELSE {}

Looked(r) == pc = "ready" /\ lastItem[r] # NoItem

\* C1: on a valid digest, lookup(item) is true exactly when one of the 4
\* cells of the item's primary bucket or of its alternate bucket equals the
\* item's fingerprint; no other cell of the table counts.
C1_LookupIffCandidateCell ==
  \A r \in Readers :
    (Looked(r) /\ valid) =>
      LET fp == fingerprint(lastItem[r])
          i1 == primaryBucket(lastItem[r], numBuckets)
          i2 == computeAlternateBucket(i1, fp, numBuckets)
      IN  result[r] = (fp \in (CellsOfBucket(i1) \cup CellsOfBucket(i2)))

\* A hit through the alternate bucket alone, in a table of several buckets.
C1_Witness ==
  \E r \in Readers :
    /\ Looked(r) /\ valid /\ result[r] /\ numBuckets > 2
    /\ fingerprint(lastItem[r]) \notin CellsOfBucket(primaryBucket(lastItem[r], numBuckets))

\* C2: a digest built from the empty string, from fewer than 5 bytes or from
\* bytes that do not start with 1 is invalid, and every lookup on it is false.
C2_RefusedIsInvalidAndEmpty ==
  (pc = "ready" /\ ~HeaderAccepted) =>
    /\ ~isValid(This)
    /\ \A item \in Items : ~lookup(This, item)
    /\ \A r \in Readers : Looked(r) => ~result[r]

\* A lookup on a digest refused for its version byte alone, whose bytes hold
\* the fingerprint of the item looked up.
C2_Witness ==
  \E r \in Readers :
    /\ Looked(r) /\ lastItem[r] = ItemA
    /\ Len(DecodedBytes) >= 5 /\ DecodedBytes[1] = 2
    /\ readCell(DecodedBytes, 0) = fingerprint(ItemA)

\* C3: no false negatives.  After any stores, relocations and evictions of a
\* conforming encoder on a power-of-two table, an item whose fingerprint is in
\* the table, in a cell that is whole in the bytes sent, is found by lookup on
\* the decoded digest.
C3_NoFalseNegative ==
  \A it \in EncoderItems :
    (/\ Looked("r1") /\ lastItem["r1"] = it
     /\ slotOf[it] # -1
     /\ 5 + (2 * slotOf[it]) + 1 < Len(DecodedBytes)) => result["r1"]

\* A stored item that sits in its alternate bucket is found in a cut digest.
C3_Witness ==
  \E it \in EncoderItems :
    /\ Looked("r1") /\ lastItem["r1"] = it /\ result["r1"]
    /\ slotOf[it] # -1
    /\ slotOf[it] \div BUCKET_SIZE # primaryBucket(it, EncoderBuckets)
    /\ Len(DecodedBytes) < Len(EncodedBytes)

\* C4: the constructor and lookup never raise: a digest comes out of every
\* string, valid or not, a valid one has its table allocated, and every lookup
\* returns a boolean, also with 0 buckets or a bucket count that is no power
\* of two.
C4_NeverRaises ==
  /\ ~raised
  /\ valid \in BOOLEAN
  /\ (pc = "ready" /\ valid) => (buckets # null /\ Len(buckets) = numBuckets * BUCKET_SIZE)
  /\ \A r \in Readers : result[r] \in BOOLEAN
  /\ pc = "ready" => \A item \in Items : ~lookupThrows(This, item) /\ lookup(This, item) \in BOOLEAN

\* A lookup that returned on a valid digest of 0 buckets.
C4_Witness ==
  \E r \in Readers : Looked(r) /\ valid /\ numBuckets = 0 /\ ~raised

\* C5: a string with a character outside the base64 alphabet (and other than
\* the padding) is never accepted as a valid digest.
C5_NonBase64Refused ==
  (pc = "ready" /\ \E i \in 1..Len(digest) : unbase64(digest[i]) < 0 /\ digest[i] # 61)
    => ~valid

\* ------------------------------------------------------------ properties of the hash engine

Returned(op) == call.op = op /\ ret # <<>>

\* C6: fingerprint(s) is the low 12 bits of the hash of s, 1 in place of 0:
\* always in 1..4095.
C6_FingerprintRange ==
  Returned("fingerprint") =>
    LET low == fnv1a(call.str).lo % Pow2(FINGERPRINT_BITS)
    IN  /\ ret[1] \in 1..(Pow2(FINGERPRINT_BITS) - 1)
        /\ ret[1] = (IF low = 0 THEN 1 ELSE low)

\* The fingerprint of a string whose hash ends in twelve 0 bits.
C6_Witness ==
  /\ Returned("fingerprint")
  /\ fnv1a(call.str).lo % Pow2(FINGERPRINT_BITS) = 0
  /\ ret[1] = 1

\* C7: for a power-of-two bucket count, computeAlternateBucket applied twice
\* gives back the bucket.
C7_AlternateIsInvolution ==
  (call.op = "computeAlternateBucket" /\ Len(ret) = 2) =>
    /\ ret[2] = call.bucket
    /\ ret[1] \in 0..(call.n - 1)

\* A round trip through another bucket, of 16.
C7_Witness ==
  /\ call.op = "computeAlternateBucket" /\ Len(ret) = 2
  /\ call.n = 16 /\ ret[1] # call.bucket /\ ret[2] = call.bucket

\* The 32-bit sum of two 32-bit values, and a shift to the left, on limbs.
Add32(a, b) ==
  [hi |-> (a.hi + b.hi + ((a.lo + b.lo) \div W16)) % W16, lo |-> (a.lo + b.lo) % W16]

RECURSIVE Shl32(_, _)
Shl32(a, k) == IF k = 0 THEN a ELSE Shl32(Add32(a, a), k - 1)

\* h * 16777619 mod 2^32 as shifts and sums: 16777619 = 2^24 + 2^8 + 2^7 + 2^4 + 2^1 + 2^0.
TimesPrime(h) ==
  Add32(Shl32(h, 24), Add32(Shl32(h, 8), Add32(Shl32(h, 7), Add32(Shl32(h, 4), Add32(Shl32(h, 1), h)))))

\* C8: the hash is the 32-bit FNV-1a fold: it starts at 2166136261, each code
\* unit is XORed in and the result multiplied by 16777619 mod 2^32; it is a
\* 32-bit value, and "", "a", "test" hash to 2166136261, 3826002220, 2949673445.
C8_HashIsFnv1a ==
  Returned("fnv1a") =>
    LET s == call.str
        h == ret[1]
    IN  /\ h.hi \in 0..(W16 - 1) /\ h.lo \in 0..(W16 - 1)
        /\ s = <<>> => h = [hi |-> 33052, lo |-> 40389]
        /\ s = ItemA => h = [hi |-> 58380, lo |-> 10540]
        /\ s = ItemTest => h = [hi |-> 45008, lo |-> 29157]
        /\ s # <<>> =>
             LET before == fnv1a(SubSeq(s, 1, Len(s) - 1))
             IN  h = TimesPrime([hi |-> before.hi, lo |-> BitXor(before.lo, s[Len(s)])])

\* The hash of "test".
C8_Witness ==
  Returned("fnv1a") /\ call.str = ItemTest /\ ret[1] = [hi |-> 45008, lo |-> 29157]

\* ------------------------------------------------------------ properties of the parsed digest

\* C9: a constructed digest never changes: a lookup by any reader leaves the
\* validity flag, the bucket count and every cell as they were, and returns
\* what it returns on the digest fresh from the parser.
C9_LookupsLeaveDigestAlone ==
  [][pc = "ready" =>
       /\ valid' = valid /\ numBuckets' = numBuckets /\ buckets' = buckets
       /\ \A fresh \in {parseDigest(digest)} :
            \A r \in Readers :
              lastItem'[r] # NoItem => result'[r] = lookup(fresh, lastItem'[r])]_vars

\* Two readers found the same item, one after the other.
C9_Witness ==
  /\ Looked("r1") /\ Looked("r2")
  /\ lastItem["r1"] = lastItem["r2"]
  /\ result["r1"] /\ result["r2"]

\* The bytes with bytes 3 and 4 replaced.
WithReserved(bytes, r1, r2) == [bytes EXCEPT ![4] = r1, ![5] = r2]

\* C10: once the header is accepted the digest is valid whatever the length
\* of the body; cell i is the big-endian pair of bytes 5+2i and 6+2i when both
\* are there and 0 otherwise; bytes 3 and 4, and bytes after the table, change
\* nothing.
C10_TruncationTolerance ==
  (pc = "ready" /\ HeaderAccepted) =>
    \A bytes \in {DecodedBytes} :
      \A n \in {(bytes[2] * 256) + bytes[3]} :
        /\ valid
        /\ numBuckets = n
        /\ Len(buckets) = n * BUCKET_SIZE
        /\ \A i \in 0..((n * BUCKET_SIZE) - 1) :
             buckets[i + 1] = (IF 6 + (2 * i) < Len(bytes)
                               THEN (bytes[5 + (2 * i) + 1] * 256) + bytes[6 + (2 * i) + 1]
                               ELSE 0)
        /\ \A r \in {<<0, 0>>, <<7, 255>>, <<255, 1>>} :
             parseDigest(ToBase64Url(WithReserved(bytes, r[1], r[2]))).buckets = buckets
        /\ Len(bytes) >= 5 + (2 * n * BUCKET_SIZE) =>
             parseDigest(ToBase64Url(bytes \o <<18, 52>>)).buckets = buckets

\* A digest cut in the middle of a cell of its table: the first byte of the
\* cell is there and not 0, the second is missing.
C10_Witness ==
  /\ pc = "ready" /\ valid
  /\ \E i \in 0..((numBuckets * BUCKET_SIZE) - 1) :
       /\ 5 + (2 * i) < Len(DecodedBytes)
       /\ 6 + (2 * i) >= Len(DecodedBytes)
       /\ DecodedBytes[5 + (2 * i) + 1] # 0
       /\ buckets[i + 1] = 0
       /\ i > 0 /\ buckets[i] # 0

====
